---- MODULE Spec2Model ----
(***************************************************************************)
(* FitnessSimulator (src/src/services/fitness_simulator.py): the engine's  *)
(* fields, the tick loop run by each loop thread, the lifecycle calls      *)
(* start()/stop(), and the request handlers reset_steps()/get_status().    *)
(* There is no lock in the source: every read and every write of a field   *)
(* of the engine is a step of its own, and steps of different threads      *)
(* interleave freely.                                                      *)
(***************************************************************************)
EXTENDS Integers, Sequences, FiniteSets, TLC

\* ---------------------------------------------------------------- bounds
MaxThreads == 2
NCallers == 2
MaxSteps == 3
SubSteps == 2

MaxTs == 3
HrMargin == 3
NRequests == 2

Threads == 1..MaxThreads
Callers == 1..NCallers

\* ------------------------------------------------------- program constants
HR_MIN == 60
HR_MAX == 180
OXY_MIN == 950
OXY_MAX == 1000
TEMP_MIN == 361
TEMP_MAX == 375
HR_NOISE == 5
OXY_NOISE == 5
TEMP_NOISE == 1
BASELINE_HR == 75
DEVICE_INTERVAL == 5

ActivityStates == {"resting", "light", "moderate", "intense"}

\* Config.HEART_RATE_ZONES, in the order the dict lists the zones
HEART_RATE_ZONES == <<
  [name |-> "reposo",   min |-> 0,   max |-> 60,  color |-> "#6b7280"],
  [name |-> "ligera",   min |-> 60,  max |-> 100, color |-> "#10b981"],
  [name |-> "moderada", min |-> 100, max |-> 140, color |-> "#f59e0b"],
  [name |-> "intensa",  min |-> 140, max |-> 170, color |-> "#ef4444"],
  [name |-> "maxima",   min |-> 170, max |-> 220, color |-> "#dc2626"] >>

\* ------------------------------------------------------- signal generators
Min2(a, b) == IF a < b THEN a ELSE b
Max2(a, b) == IF a > b THEN a ELSE b

\* mutant: the lower limit is not applied
ClampUpperOnly(v, lo, hi) == Min2(v, hi)

\* max(cfg.min, min(v, cfg.max))
Clamp(v, lo, hi) == Max2(lo, Min2(v, hi))

\* random.randint(lo, hi) / random.uniform(lo, hi): every value of the range
Uniform(r) == r[1]..r[2]
\* the two ends of a range: the step increments the interleaving specifications draw
Ends(r) == {r[1], r[2]}
\* the low end of a range: the one draw the interleaving specifications make for a
\* signal no field of the engine depends on (SpecGen draws the whole range)
Low(r) == {r[1]}

HrTarget(s) ==
  CASE s = "resting"  -> <<60, 80>>
    [] s = "light"    -> <<90, 110>>
    [] s = "moderate" -> <<120, 140>>
    [] s = "intense"  -> <<150, 175>>
    [] OTHER          -> <<BASELINE_HR, BASELINE_HR>>

HeartRateOf(target, noise) == Clamp(target + noise, HR_MIN, HR_MAX)

StepRange(s) ==
  CASE s = "resting"  -> <<0, 2>>
    [] s = "light"    -> <<3, 8>>
    [] s = "moderate" -> <<10, 20>>
    [] s = "intense"  -> <<25, 40>>
    [] OTHER          -> <<0, 0>>

\* Decimal values are integers counting 1/(10*SubSteps): SubSteps draws per tenth.
Fine(tenths) == tenths * SubSteps

\* round(x, 1), result in tenths.  A decimal tie has no exact binary float, so
\* the float that stands for it lies on either side: both results are kept.
Round1(v) ==
  LET q == v \div SubSteps
      r == v % SubSteps
  IN  IF 2 * r < SubSteps THEN {q}
      ELSE IF 2 * r > SubSteps THEN {q + 1}
      ELSE {q, q + 1}

OxyBase(s) == IF s = "intense" THEN <<950, 980>> ELSE <<970, 1000>>

OxygenOf(base, noise) == Round1(Clamp(base + noise, Fine(OXY_MIN), Fine(OXY_MAX)))

TempBase(s) ==
  CASE s = "resting"  -> <<363, 368>>
    [] s = "light"    -> <<366, 370>>
    [] s = "moderate" -> <<369, 373>>
    [] s = "intense"  -> <<370, 375>>
    [] OTHER          -> <<366, 366>>

TemperatureOf(base, noise) == Round1(Clamp(base + noise, Fine(TEMP_MIN), Fine(TEMP_MAX)))

FineRange(r) == <<Fine(r[1]), Fine(r[2])>>
Noise(n) == <<-n, n>>

\* ------------------------------------------------------------------ state
VARIABLES
  is_running,       \* self.is_running
  thread,           \* self.thread: 0 is None, else the loop thread it names
  activity_state,   \* self.activity_state
  total_steps,      \* self.total_steps
  baseline_hr,      \* self.baseline_hr
  lpc,              \* where each loop thread is in _simulation_loop
  l_inc,            \* _generate_steps: the increment drawn
  l_tmp,            \* _generate_steps: total_steps + increment, not yet stored
  reading,          \* generate_reading: the values generated so far
  db_pasos,         \* db.biometric_readings: 'pasos' of the document inserted last, -1 if none
  cpc,              \* where each lifecycle caller is in start() / stop()
  jt,               \* stop(): the thread object join() was called on
  rpc,              \* the reset-steps request handler
  spc,              \* the status request handler: where it is in get_status
  status,           \* get_status: the dict built so far
  hist,             \* history: the engine states held during the get_status call
  plain,            \* history: no stop() was called and no two lifecycle calls overlapped
  resetPending,     \* history: reset_steps returned and no _generate_steps began since
  mark,             \* history: each tick's _generate_steps relative to the resets
  db_clean,         \* history: no reset since the step generation of that document began
  stopReq,          \* history: stop() cleared the flag while this loop was alive
  l_state,          \* history: the activity state this tick's transition left
  saved,            \* history: the outcomes of this tick's insert_one calls
  app_db,           \* app.db: "unset" before create_app's try, then "db" or "None"
  app_simulator,    \* app.simulator: "unset", then "sim" or "None"
  app_up,           \* create_app returned the app: the routes are served
  db_docs,          \* db.biometric_readings as the API queries read it: timestamp and heart rate
  resp              \* the response of the API request handled last

engine == <<is_running, thread, activity_state, total_steps, baseline_hr>>
loopv  == <<lpc, l_inc, l_tmp, reading>>
callv  == <<cpc, jt>>
statv  == <<spc, status>>
ghostv == <<plain, resetPending, mark, db_clean, stopReq>>
tickv  == <<l_state, saved>>
webv   == <<app_db, app_simulator, app_up, db_docs, resp>>
vars   == <<engine, loopv, db_pasos, callv, rpc, statv, hist, ghostv, tickv, webv>>

NoReading == [hr |-> 0, steps |-> 0, spo2 |-> 0, temp |-> 0]
NoResponse == [route |-> "", req |-> 0, code |-> 0, zone |-> "", color |-> "", ts |-> 0, hr |-> 0]
NoStatus  == [running |-> FALSE, activity_state |-> "", total_steps |-> 0,
              baseline_hr |-> 0, interval |-> 0]

Live == {t \in Threads : lpc[t] \notin {"unborn", "done"}}
EngineNow == <<is_running, activity_state, total_steps>>

\* __init__
Init ==
  /\ is_running = FALSE
  /\ thread = 0
  /\ activity_state = "resting"
  /\ total_steps = 0
  /\ baseline_hr = BASELINE_HR
  /\ lpc = [t \in Threads |-> "unborn"]
  /\ l_inc = [t \in Threads |-> 0]
  /\ l_tmp = [t \in Threads |-> 0]
  /\ reading = [t \in Threads |-> NoReading]
  /\ db_pasos = -1
  /\ cpc = [c \in Callers |-> "idle"]
  /\ jt = [c \in Callers |-> 0]
  /\ rpc = "idle"
  /\ spc = "idle"
  /\ status = NoStatus
  /\ hist = {}
  /\ plain = TRUE
  /\ resetPending = FALSE
  /\ mark = [t \in Threads |-> "none"]
  /\ db_clean = FALSE
  /\ stopReq = [t \in Threads |-> FALSE]
  /\ l_state = [t \in Threads |-> ""]
  /\ saved = [t \in Threads |-> <<>>]
  /\ app_db = "db"
  /\ app_simulator = "sim"
  /\ app_up = TRUE
  /\ db_docs = {}
  /\ resp = NoResponse

\* ------------------------------------------------------- history of a get_status call
\* what the dict built so far says of an engine state
Agrees(st, e, upto) ==
  /\ st.running = e[1]
  /\ upto >= 2 => st.activity_state = e[2]
  /\ upto >= 3 => st.total_steps = e[3]

\* the engine states held since the call began that agree with the dict built so far
HistStep(st, upto) == hist' = {e \in hist \cup {EngineNow'} : Agrees(st, e, upto)}

\* a step of another thread while a get_status call is under way
Beside == IF spc \in {"idle", "ret"} THEN hist' = hist
          ELSE HistStep(status, IF spc = "activity" THEN 1 ELSE 2)

\* ------------------------------------------------------- start() and stop()
OthersIdle(c) == \A d \in Callers \ {c} : cpc[d] = "idle"

\* a caller enters start()
StartCall(c) ==
  /\ cpc[c] = "idle"
  /\ cpc' = [cpc EXCEPT ![c] = "start_check"]
  /\ plain' = (plain /\ OthersIdle(c))
  /\ UNCHANGED <<engine, loopv, db_pasos, jt, rpc, statv, resetPending, mark,
                 db_clean, stopReq>>
  /\ UNCHANGED <<tickv, webv>>
  /\ Beside

\* mutant: start() does not test the flag
StartCheckNoGuard(c) ==
  /\ cpc[c] = "start_check"
  /\ cpc' = [cpc EXCEPT ![c] = "start_set"]
  /\ UNCHANGED <<engine, loopv, db_pasos, jt, rpc, statv, ghostv>>
  /\ UNCHANGED <<tickv, webv>>
  /\ Beside

\* if self.is_running: return
StartCheck(c) ==
  /\ cpc[c] = "start_check"
  /\ cpc' = [cpc EXCEPT ![c] = IF is_running THEN "idle" ELSE "start_set"]
  /\ UNCHANGED <<engine, loopv, db_pasos, jt, rpc, statv, ghostv>>
  /\ UNCHANGED <<tickv, webv>>
  /\ Beside

\* mutant: start() begins a fresh run
StartSetFresh(c) ==
  /\ cpc[c] = "start_set"
  /\ is_running' = TRUE
  /\ total_steps' = 0
  /\ activity_state' = "resting"
  /\ cpc' = [cpc EXCEPT ![c] = "start_thread"]
  /\ UNCHANGED <<thread, baseline_hr, loopv,
                 db_pasos, jt, rpc, statv, ghostv>>
  /\ UNCHANGED <<tickv, webv>>
  /\ Beside

\* self.is_running = True
StartSet(c) ==
  /\ cpc[c] = "start_set"
  /\ is_running' = TRUE
  /\ cpc' = [cpc EXCEPT ![c] = "start_thread"]
  /\ UNCHANGED <<thread, activity_state, total_steps, baseline_hr, loopv,
                 db_pasos, jt, rpc, statv, ghostv>>
  /\ UNCHANGED <<tickv, webv>>
  /\ Beside

\* a thread object no live loop and no pending join() uses
FreeThreads == {t \in Threads : /\ lpc[t] \in {"unborn", "done"}
                                /\ \A c \in Callers : jt[c] # t}

\* self.thread = threading.Thread(target=self._simulation_loop); self.thread.start()
StartThread(c) ==
  /\ cpc[c] = "start_thread"
  /\ FreeThreads # {}
  /\ LET t == CHOOSE x \in FreeThreads : \A y \in FreeThreads : x <= y
     IN  /\ thread' = t
         /\ lpc' = [lpc EXCEPT ![t] = "check"]
         /\ l_inc' = [l_inc EXCEPT ![t] = 0]
         /\ l_tmp' = [l_tmp EXCEPT ![t] = 0]
         /\ reading' = [reading EXCEPT ![t] = NoReading]
         /\ mark' = [mark EXCEPT ![t] = "none"]
         /\ stopReq' = [stopReq EXCEPT ![t] = FALSE]
         /\ l_state' = [l_state EXCEPT ![t] = ""]
         /\ saved' = [saved EXCEPT ![t] = <<>>]
  /\ cpc' = [cpc EXCEPT ![c] = "idle"]
  /\ UNCHANGED <<is_running, activity_state, total_steps, baseline_hr, db_pasos,
                 jt, rpc, statv, plain, resetPending, db_clean>>
  /\ UNCHANGED webv
  /\ Beside

\* a caller enters stop()
StopCall(c) ==
  /\ cpc[c] = "idle"
  /\ cpc' = [cpc EXCEPT ![c] = "stop_check"]
  /\ plain' = FALSE
  /\ UNCHANGED <<engine, loopv, db_pasos, jt, rpc, statv, resetPending, mark,
                 db_clean, stopReq>>
  /\ UNCHANGED <<tickv, webv>>
  /\ Beside

\* mutant: stop() does not test the flag
StopCheckNoGuard(c) ==
  /\ cpc[c] = "stop_check"
  /\ cpc' = [cpc EXCEPT ![c] = "stop_clear"]
  /\ UNCHANGED <<engine, loopv, db_pasos, jt, rpc, statv, ghostv>>
  /\ UNCHANGED <<tickv, webv>>
  /\ Beside

\* if not self.is_running: return
StopCheck(c) ==
  /\ cpc[c] = "stop_check"
  /\ cpc' = [cpc EXCEPT ![c] = IF ~is_running THEN "idle" ELSE "stop_clear"]
  /\ UNCHANGED <<engine, loopv, db_pasos, jt, rpc, statv, ghostv>>
  /\ UNCHANGED <<tickv, webv>>
  /\ Beside

\* mutant: stop() also puts the activity state back to resting
StopClearResting(c) ==
  /\ cpc[c] = "stop_clear"
  /\ is_running' = FALSE
  /\ activity_state' = "resting"
  /\ stopReq' = [t \in Threads |-> stopReq[t] \/ t \in Live]
  /\ cpc' = [cpc EXCEPT ![c] = "stop_thread"]
  /\ UNCHANGED <<thread, total_steps, baseline_hr, loopv,
                 db_pasos, jt, rpc, statv, plain, resetPending, mark, db_clean>>
  /\ UNCHANGED <<tickv, webv>>
  /\ Beside

\* self.is_running = False
StopClear(c) ==
  /\ cpc[c] = "stop_clear"
  /\ is_running' = FALSE
  /\ stopReq' = [t \in Threads |-> stopReq[t] \/ t \in Live]
  /\ cpc' = [cpc EXCEPT ![c] = "stop_thread"]
  /\ UNCHANGED <<thread, activity_state, total_steps, baseline_hr, loopv,
                 db_pasos, jt, rpc, statv, plain, resetPending, mark, db_clean>>
  /\ UNCHANGED <<tickv, webv>>
  /\ Beside

\* if self.thread: self.thread.join(timeout=5), the call made
StopThread(c) ==
  /\ cpc[c] = "stop_thread"
  /\ IF thread = 0
       THEN /\ cpc' = [cpc EXCEPT ![c] = "idle"]
            /\ jt' = jt
       ELSE /\ cpc' = [cpc EXCEPT ![c] = "stop_join"]
            /\ jt' = [jt EXCEPT ![c] = thread]
  /\ UNCHANGED <<engine, loopv, db_pasos, rpc, statv, ghostv>>
  /\ UNCHANGED <<tickv, webv>>
  /\ Beside

\* join() returns: the loop has ended
JoinDone(c) ==
  /\ cpc[c] = "stop_join"
  /\ lpc[jt[c]] = "done"
  /\ cpc' = [cpc EXCEPT ![c] = "idle"]
  /\ jt' = [jt EXCEPT ![c] = 0]
  /\ UNCHANGED <<engine, loopv, db_pasos, rpc, statv, ghostv>>
  /\ UNCHANGED <<tickv, webv>>
  /\ Beside

\* join() returns: the 5 seconds are over and the loop has not ended
JoinTimeout(c) ==
  /\ cpc[c] = "stop_join"
  /\ lpc[jt[c]] # "done"
  /\ cpc' = [cpc EXCEPT ![c] = "idle"]
  /\ jt' = [jt EXCEPT ![c] = 0]
  /\ UNCHANGED <<engine, loopv, db_pasos, rpc, statv, ghostv>>
  /\ UNCHANGED <<tickv, webv>>
  /\ Beside

\* ------------------------------------------------------- _simulation_loop
\* while self.is_running:
LoopCheck(t) ==
  /\ lpc[t] = "check"
  /\ lpc' = [lpc EXCEPT ![t] = IF is_running THEN "change" ELSE "done"]
  /\ UNCHANGED <<engine, l_inc, l_tmp, reading, db_pasos, callv, rpc, statv, ghostv>>
  /\ UNCHANGED <<tickv, webv>>
  /\ Beside

\* _change_activity_state: random.random() < 0.2 picks a state, else none
ChangeActivityState(t) ==
  /\ lpc[t] = "change"
  /\ \/ activity_state' = activity_state
     \/ \E s \in ActivityStates : activity_state' = s
  /\ lpc' = [lpc EXCEPT ![t] = "hr"]
  /\ l_state' = [l_state EXCEPT ![t] = activity_state']
  /\ saved' = saved
  /\ UNCHANGED <<is_running, thread, total_steps, baseline_hr, l_inc, l_tmp, reading,
                 db_pasos, callv, rpc, statv, ghostv>>
  /\ UNCHANGED webv
  /\ Beside

\* hr = self._generate_heart_rate()
GenerateHeartRate(t) ==
  /\ lpc[t] = "hr"
  /\ \E target \in Low(HrTarget(activity_state)), noise \in Low(Noise(HR_NOISE)) :
       reading' = [reading EXCEPT ![t].hr = HeartRateOf(target, noise)]
  /\ lpc' = [lpc EXCEPT ![t] = "steps"]
  /\ UNCHANGED <<engine, l_inc, l_tmp, db_pasos, callv, rpc, statv, ghostv>>
  /\ UNCHANGED <<tickv, webv>>
  /\ Beside

\* _generate_steps: the increment is drawn, and self.total_steps read for the +=
GenerateStepsLoad(t) ==
  /\ lpc[t] = "steps"
  /\ \E inc \in Ends(StepRange(activity_state)) :
       /\ total_steps + inc <= MaxSteps
       /\ l_inc' = [l_inc EXCEPT ![t] = inc]
       /\ l_tmp' = [l_tmp EXCEPT ![t] = total_steps + inc]
  /\ mark' = [mark EXCEPT ![t] = IF resetPending THEN "first" ELSE "plain"]
  /\ resetPending' = FALSE
  /\ lpc' = [lpc EXCEPT ![t] = "steps_store"]
  /\ l_state' = [l_state EXCEPT ![t] = ""]
  /\ saved' = saved
  /\ UNCHANGED <<engine, reading, db_pasos, callv, rpc, statv, plain, db_clean, stopReq>>
  /\ UNCHANGED webv
  /\ Beside

\* _generate_steps: self.total_steps += increment, the store
GenerateStepsStore(t) ==
  /\ lpc[t] = "steps_store"
  /\ total_steps' = l_tmp[t]
  /\ l_tmp' = [l_tmp EXCEPT ![t] = 0]
  /\ lpc' = [lpc EXCEPT ![t] = "steps_ret"]
  /\ UNCHANGED <<is_running, thread, activity_state, baseline_hr, l_inc, reading,
                 db_pasos, callv, rpc, statv, ghostv>>
  /\ UNCHANGED <<tickv, webv>>
  /\ Beside

\* _generate_steps: return self.total_steps
GenerateStepsReturn(t) ==
  /\ lpc[t] = "steps_ret"
  /\ reading' = [reading EXCEPT ![t].steps = total_steps]
  /\ l_inc' = [l_inc EXCEPT ![t] = 0]
  /\ lpc' = [lpc EXCEPT ![t] = "oxy"]
  /\ UNCHANGED <<engine, l_tmp, db_pasos, callv, rpc, statv, ghostv>>
  /\ UNCHANGED <<tickv, webv>>
  /\ Beside

\* mutant: a failed insert is tried again
AfterSaveRetry(ok) == IF ok THEN "sleep" ELSE "oxy"

\* mutant: a failed insert ends the loop
AfterSaveFatal(ok) == IF ok THEN "sleep" ELSE "done"

\* where the loop goes after save_reading: insert_one's exception is caught in
\* save_reading (None is returned), and the loop sleeps either way
AfterSave(ok) == "sleep"

\* spo2 = self._generate_oxygen(); temp = self._generate_temperature(); the
\* BiometricReading is built; self.save_reading(reading): insert_one succeeds or
\* raises.  Neither value is held across another thread's step: each goes from
\* its generator into the document inserted.
SaveReading(t) ==
  /\ lpc[t] = "oxy"
  /\ \E ok \in BOOLEAN :
       /\ lpc' = [lpc EXCEPT ![t] = AfterSave(ok)]
       /\ saved' = [saved EXCEPT ![t] = Append(saved[t], ok)]
       /\ \E ob \in Low(FineRange(OxyBase(activity_state))),
             on \in Low(Noise(Fine(OXY_NOISE))),
             tb \in Low(FineRange(TempBase(activity_state))),
             tn \in Low(Noise(Fine(TEMP_NOISE))) :
            \E o \in OxygenOf(ob, on), tp \in TemperatureOf(tb, tn) :
              LET doc == [reading[t] EXCEPT !.spo2 = o, !.temp = tp]
              IN  db_pasos' = IF ok THEN doc.steps ELSE db_pasos
       /\ db_clean' = IF ok THEN (mark[t] # "reset") ELSE db_clean
  /\ reading' = [reading EXCEPT ![t] = NoReading]
  /\ mark' = [mark EXCEPT ![t] = "none"]
  /\ l_state' = l_state
  /\ UNCHANGED <<engine, l_inc, l_tmp, callv, rpc, statv, plain, resetPending, stopReq>>
  /\ UNCHANGED webv
  /\ Beside

\* time.sleep(self.config.DEVICE_INTERVAL) returns
Sleep(t) ==
  /\ lpc[t] = "sleep"
  /\ lpc' = [lpc EXCEPT ![t] = "check"]
  /\ saved' = [saved EXCEPT ![t] = <<>>]
  /\ l_state' = l_state
  /\ UNCHANGED <<engine, l_inc, l_tmp, reading, db_pasos, callv, rpc, statv, ghostv>>
  /\ UNCHANGED webv
  /\ Beside

\* ------------------------------------------------------- reset_steps
\* POST /api/simulator/reset-steps arrives
ResetCall ==
  /\ rpc = "idle"
  /\ rpc' = "reset"
  /\ UNCHANGED <<engine, loopv, db_pasos, callv, statv, ghostv>>
  /\ UNCHANGED <<tickv, webv>>
  /\ Beside

\* mutant: the reset also puts the activity state back to resting
ResetStepsAndActivity ==
  /\ rpc = "reset"
  /\ total_steps' = 0
  /\ activity_state' = "resting"
  /\ rpc' = "idle"
  /\ resetPending' = TRUE
  /\ mark' = [t \in Threads |-> IF mark[t] = "none" THEN "none" ELSE "reset"]
  /\ db_clean' = FALSE
  /\ UNCHANGED <<is_running, thread, baseline_hr, loopv, db_pasos,
                 callv, statv, plain, stopReq>>
  /\ UNCHANGED <<tickv, webv>>
  /\ Beside

\* self.total_steps = 0
ResetSteps ==
  /\ rpc = "reset"
  /\ total_steps' = 0
  /\ rpc' = "idle"
  /\ resetPending' = TRUE
  /\ mark' = [t \in Threads |-> IF mark[t] = "none" THEN "none" ELSE "reset"]
  /\ db_clean' = FALSE
  /\ UNCHANGED <<is_running, thread, activity_state, baseline_hr, loopv, db_pasos,
                 callv, statv, plain, stopReq>>
  /\ UNCHANGED <<tickv, webv>>
  /\ Beside

\* ------------------------------------------------------- get_status
\* GET /api/simulator/status arrives; 'running': self.is_running
StatusRunning ==
  /\ spc = "idle"
  /\ status' = [NoStatus EXCEPT !.running = is_running]
  /\ spc' = "activity"
  /\ hist' = {EngineNow}
  /\ UNCHANGED <<engine, loopv, db_pasos, callv, rpc, ghostv, tickv, webv>>

\* 'activity_state': self.activity_state
StatusActivity ==
  /\ spc = "activity"
  /\ status' = [status EXCEPT !.activity_state = activity_state]
  /\ spc' = "steps"
  /\ UNCHANGED <<engine, loopv, db_pasos, callv, rpc, ghostv, tickv, webv>>
  /\ HistStep(status', 2)

\* 'total_steps': self.total_steps, then baseline_hr and the interval; the dict is built
StatusSteps ==
  /\ spc = "steps"
  /\ status' = [status EXCEPT !.total_steps = total_steps,
                              !.baseline_hr = baseline_hr,
                              !.interval = DEVICE_INTERVAL]
  /\ spc' = "ret"
  /\ UNCHANGED <<engine, loopv, db_pasos, callv, rpc, ghostv, tickv, webv>>
  /\ HistStep(status', 3)

\* the dict is returned and the response sent
StatusReturn ==
  /\ spc = "ret"
  /\ spc' = "idle"
  /\ status' = NoStatus
  /\ hist' = {}
  /\ UNCHANGED <<engine, loopv, db_pasos, callv, rpc, ghostv, tickv, webv>>

\* ------------------------------------------------------- the API's queries
\* the requests a client sends, told apart by an id
Requests == 1..NRequests

\* mutant: the zone intervals are closed at both ends
ZoneMatchesClosed(zones, hr) ==
  {i \in 1..Len(zones) : zones[i].min <= hr /\ hr <= zones[i].max}

\* the zones z of the table with z["min"] <= hr < z["max"]
ZoneMatches(zones, hr) ==
  {i \in 1..Len(zones) : zones[i].min <= hr /\ hr < zones[i].max}

\* next((name for name, z in zones.items() if ...), "reposo"): the first match
ZoneOf(zones, hr) ==
  LET m == ZoneMatches(zones, hr)
  IN  IF m = {} THEN "reposo"
      ELSE zones[CHOOSE i \in m : \A j \in m : i <= j].name

\* zones[zone]["color"]
ZoneColor(zones, name) == zones[CHOOSE i \in 1..Len(zones) : zones[i].name = name].color

\* mutant: 100 bpm still counts as ligera
GetHeartRateZoneLate(hr) ==
  IF hr < 60 THEN "reposo"
  ELSE IF hr <= 100 THEN "ligera"
  ELSE IF hr < 140 THEN "moderada"
  ELSE IF hr < 170 THEN "intensa"
  ELSE "maxima"

\* BiometricReading.get_heart_rate_zone
GetHeartRateZone(hr) ==
  IF hr < 60 THEN "reposo"
  ELSE IF hr < 100 THEN "ligera"
  ELSE IF hr < 140 THEN "moderada"
  ELSE IF hr < 170 THEN "intensa"
  ELSE "maxima"

\* mutant: the sort is ascending
FindOneOldest(docs) == {d \in docs : \A e \in docs : d.ts <= e.ts}

\* find_one(sort=[("timestamp", -1)]): a document no other is later than
FindOneLatest(docs) == {d \in docs : \A e \in docs : e.ts <= d.ts}

\* an unhandled exception in a view: Flask answers 500
ServerError(route, q) == [NoResponse EXCEPT !.route = route, !.req = q, !.code = 500]

\* jsonify({"message": "No data available"}), 404
NotFound(route, q) == [NoResponse EXCEPT !.route = route, !.req = q, !.code = 404]

\* insert_one as the API's queries see it: a loop's document, with the
\* timestamp generate_reading gave it and its heart rate, is in the collection
InsertOne ==
  /\ app_db = "db"
  /\ \E ts \in 1..MaxTs, s \in {"resting", "light"} :
       \E target \in Low(HrTarget(s)), noise \in Low(Noise(HR_NOISE)) :
         db_docs' = db_docs \cup {[ts |-> ts, hr |-> HeartRateOf(target, noise)]}
  /\ UNCHANGED <<engine, loopv, db_pasos, callv, rpc, statv, hist, ghostv, tickv,
                 app_db, app_simulator, app_up, resp>>

\* GET /api/biometrics/latest
ApiLatest ==
  /\ app_up
  /\ \E q \in Requests \ {resp.req} :
       IF app_db # "db" THEN resp' = ServerError("latest", q)
       ELSE IF db_docs = {} THEN resp' = NotFound("latest", q)
       ELSE \E latest \in FindOneLatest(db_docs) :
              resp' = [NoResponse EXCEPT !.route = "latest", !.req = q, !.code = 200,
                                         !.ts = latest.ts, !.hr = latest.hr]
  /\ UNCHANGED <<engine, loopv, db_pasos, callv, rpc, statv, hist, ghostv, tickv,
                 app_db, app_simulator, app_up, db_docs>>

\* GET /api/heart_rate/zone
ApiZone ==
  /\ app_up
  /\ \E q \in Requests \ {resp.req} :
       IF app_db # "db" THEN resp' = ServerError("zone", q)
       ELSE IF db_docs = {} THEN resp' = NotFound("zone", q)
       ELSE \E latest \in FindOneLatest(db_docs) :
              LET hr == latest.hr
                  zone == ZoneOf(HEART_RATE_ZONES, hr)
              IN  resp' = [NoResponse EXCEPT !.route = "zone", !.req = q, !.code = 200,
                                             !.hr = hr, !.zone = zone,
                                             !.color = ZoneColor(HEART_RATE_ZONES, zone)]
  /\ UNCHANGED <<engine, loopv, db_pasos, callv, rpc, statv, hist, ghostv, tickv,
                 app_db, app_simulator, app_up, db_docs>>

\* ------------------------------------------------------- create_app
\* the try block of create_app: MongoClient and the ping succeed, app.db is
\* set, the engine is constructed and start() is called; or one of them raises
\* and the except clause sets app.db and app.simulator to None
CreateAppConnect ==
  /\ app_db = "unset"
  /\ \E ok \in BOOLEAN :
       IF ok THEN /\ app_db' = "db"
                  /\ app_simulator' = "sim"
                  /\ cpc' = [cpc EXCEPT ![1] = "start_check"]
             ELSE /\ app_db' = "None"
                  /\ app_simulator' = "None"
                  /\ cpc' = cpc
  /\ UNCHANGED <<engine, loopv, db_pasos, jt, rpc, statv, hist, ghostv, tickv,
                 app_up, db_docs, resp>>

\* return app: after start() returned, or after the except clause; app.run
\* then serves the routes
CreateAppReturn ==
  /\ ~app_up
  /\ app_db # "unset"
  /\ cpc[1] = "idle"
  /\ app_db = "db" => thread # 0
  /\ app_up' = TRUE
  /\ UNCHANGED <<engine, loopv, db_pasos, callv, rpc, statv, hist, ghostv, tickv,
                 app_db, app_simulator, db_docs, resp>>

\* /api/simulator/status and /api/simulator/reset-steps when app.simulator is
\* None: the method call raises, the view answers 500
ApiNoEngine ==
  /\ app_up
  /\ app_simulator = "None"
  /\ \E q \in Requests \ {resp.req}, route \in {"status", "reset"} :
       resp' = ServerError(route, q)
  /\ UNCHANGED <<engine, loopv, db_pasos, callv, rpc, statv, hist, ghostv, tickv,
                 app_db, app_simulator, app_up, db_docs>>

\* ------------------------------------------------------- specification
Lifecycle(c) ==
  \/ StartCall(c) \/ StartCheck(c) \/ StartSet(c) \/ StartThread(c)
  \/ StopCall(c) \/ StopCheck(c) \/ StopClear(c) \/ StopThread(c)
  \/ JoinDone(c) \/ JoinTimeout(c)

LoopStep(t) ==
  \/ LoopCheck(t) \/ ChangeActivityState(t) \/ GenerateHeartRate(t)
  \/ GenerateStepsLoad(t) \/ GenerateStepsStore(t) \/ GenerateStepsReturn(t)
  \/ SaveReading(t) \/ Sleep(t)

Reset == ResetCall \/ ResetSteps

Status == StatusRunning \/ StatusActivity \/ StatusSteps \/ StatusReturn

StartOnly(c) == StartCall(c) \/ StartCheck(c) \/ StartSet(c) \/ StartThread(c)

Next ==
  \/ \E c \in Callers : Lifecycle(c)
  \/ \E t \in Threads : LoopStep(t)
  \/ Reset
  \/ Status

\* the whole engine: every caller, every loop thread, both request handlers
Spec == Init /\ [][Next]_vars

\* one lifecycle caller (start() and stop() one after the other, as the
\* application's own thread calls them) and the loops it makes
NextSeq ==
  \/ Lifecycle(1)
  \/ \E t \in Threads : LoopStep(t)

SpecSeq == Init /\ [][NextSeq]_vars

\* concurrent callers of start() and the loops they make
NextRace ==
  \/ \E c \in Callers : StartOnly(c)
  \/ \E t \in Threads : LoopStep(t)

SpecRace == Init /\ [][NextRace]_vars

\* the request path: the application starts the engine once (create_app) and
\* the reset-steps handler runs beside the loop
NextReset ==
  \/ StartOnly(1)
  \/ \E t \in Threads : LoopStep(t)
  \/ Reset

SpecReset == Init /\ [][NextReset]_vars

\* the lifecycle under a scheduler that runs every loop thread that can step:
\* a Python thread that is runnable is given the interpreter again and again
SpecFair == SpecSeq /\ \A t \in Threads : WF_vars(LoopStep(t))

\* the request path: the status handler beside the loop and the reset-steps handler
NextStatus ==
  \/ StartOnly(1)
  \/ \E t \in Threads : LoopStep(t)
  \/ Reset
  \/ Status

SpecStatus == Init /\ [][NextStatus]_vars

\* start() and stop() where the join returns before its timeout
LifecycleJoined(c) ==
  \/ StartCall(c) \/ StartCheck(c) \/ StartSet(c) \/ StartThread(c)
  \/ StopCall(c) \/ StopCheck(c) \/ StopClear(c) \/ StopThread(c)
  \/ JoinDone(c)

\* the engine's four operations: start() and stop() from one thread (stop()
\* waits for the loop to end), the loops, and the two request handlers
NextOps ==
  \/ LifecycleJoined(1)
  \/ \E t \in Threads : LoopStep(t)
  \/ Reset
  \/ Status

SpecOps == Init /\ [][NextOps]_vars

\* ------------------------------------------------------- the generators alone
\* the engine in any activity state, nothing generated yet
InitGen ==
  /\ activity_state \in ActivityStates
  /\ is_running = FALSE /\ thread = 0 /\ total_steps = 0 /\ baseline_hr = BASELINE_HR
  /\ lpc = [t \in Threads |-> "unborn"]
  /\ l_inc = [t \in Threads |-> 0]
  /\ l_tmp = [t \in Threads |-> 0]
  /\ reading = [t \in Threads |-> NoReading]
  /\ db_pasos = -1
  /\ cpc = [c \in Callers |-> "idle"]
  /\ jt = [c \in Callers |-> 0]
  /\ rpc = "idle" /\ spc = "idle" /\ status = NoStatus /\ hist = {}
  /\ plain = TRUE /\ resetPending = FALSE /\ db_clean = FALSE
  /\ mark = [t \in Threads |-> "none"]
  /\ stopReq = [t \in Threads |-> FALSE]
  /\ l_state = [t \in Threads |-> ""]
  /\ saved = [t \in Threads |-> <<>>]
  /\ app_db = "db"
  /\ app_simulator = "sim"
  /\ app_up = TRUE
  /\ db_docs = {}
  /\ resp = NoResponse

notReading == <<engine, lpc, l_inc, l_tmp, db_pasos, callv, rpc, statv, hist, ghostv, tickv, webv>>

\* _generate_heart_rate with every draw of random.randint
SampleHeartRate ==
  /\ \E target \in Uniform(HrTarget(activity_state)), noise \in Uniform(Noise(HR_NOISE)) :
       reading' = [reading EXCEPT ![1] = [NoReading EXCEPT !.hr = HeartRateOf(target, noise)]]
  /\ UNCHANGED notReading

\* _generate_oxygen with every draw of random.uniform, SubSteps draws per tenth
SampleOxygen ==
  /\ \E base \in Uniform(FineRange(OxyBase(activity_state))),
        noise \in Uniform(Noise(Fine(OXY_NOISE))) :
       \E v \in OxygenOf(base, noise) :
         reading' = [reading EXCEPT ![1] = [NoReading EXCEPT !.spo2 = v]]
  /\ UNCHANGED notReading

\* _generate_temperature with every draw of random.uniform, SubSteps draws per tenth
SampleTemperature ==
  /\ \E base \in Uniform(FineRange(TempBase(activity_state))),
        noise \in Uniform(Noise(Fine(TEMP_NOISE))) :
       \E v \in TemperatureOf(base, noise) :
         reading' = [reading EXCEPT ![1] = [NoReading EXCEPT !.temp = v]]
  /\ UNCHANGED notReading

NextGen == SampleHeartRate \/ SampleOxygen \/ SampleTemperature

SpecGen == InitGen /\ [][NextGen]_vars

\* ------------------------------------------------------- the API alone
\* the collection as the loops fill it, and the two queries for the latest reading
NextStore == InsertOne \/ ApiLatest \/ ApiZone

SpecStore == Init /\ [][NextStore]_vars

\* the heart rates the zone lookup is given: the table's span and a margin around it
HrInputs == (0 - HrMargin)..(HEART_RATE_ZONES[Len(HEART_RATE_ZONES)].max + HrMargin)

\* one reading in the collection, with any heart rate
InitZone ==
  /\ \E hr \in HrInputs : db_docs = {[ts |-> 1, hr |-> hr]}
  /\ is_running = FALSE /\ thread = 0 /\ total_steps = 0 /\ baseline_hr = BASELINE_HR
  /\ activity_state = "resting"
  /\ lpc = [t \in Threads |-> "unborn"]
  /\ l_inc = [t \in Threads |-> 0]
  /\ l_tmp = [t \in Threads |-> 0]
  /\ reading = [t \in Threads |-> NoReading]
  /\ db_pasos = -1
  /\ cpc = [c \in Callers |-> "idle"]
  /\ jt = [c \in Callers |-> 0]
  /\ rpc = "idle" /\ spc = "idle" /\ status = NoStatus /\ hist = {}
  /\ plain = TRUE /\ resetPending = FALSE /\ db_clean = FALSE
  /\ mark = [t \in Threads |-> "none"]
  /\ stopReq = [t \in Threads |-> FALSE]
  /\ l_state = [t \in Threads |-> ""]
  /\ saved = [t \in Threads |-> <<>>]
  /\ app_db = "db" /\ app_simulator = "sim" /\ app_up = TRUE
  /\ resp = NoResponse

NextZone == ApiZone \/ ApiLatest

SpecZone == InitZone /\ [][NextZone]_vars

\* ------------------------------------------------------- the application's start
\* before create_app ran: nothing connected, no engine, no route served
InitApp ==
  /\ app_db = "unset" /\ app_simulator = "unset" /\ app_up = FALSE
  /\ db_docs = {} /\ resp = NoResponse
  /\ is_running = FALSE /\ thread = 0 /\ total_steps = 0 /\ baseline_hr = BASELINE_HR
  /\ activity_state = "resting"
  /\ lpc = [t \in Threads |-> "unborn"]
  /\ l_inc = [t \in Threads |-> 0]
  /\ l_tmp = [t \in Threads |-> 0]
  /\ reading = [t \in Threads |-> NoReading]
  /\ db_pasos = -1
  /\ cpc = [c \in Callers |-> "idle"]
  /\ jt = [c \in Callers |-> 0]
  /\ rpc = "idle" /\ spc = "idle" /\ status = NoStatus /\ hist = {}
  /\ plain = TRUE /\ resetPending = FALSE /\ db_clean = FALSE
  /\ mark = [t \in Threads |-> "none"]
  /\ stopReq = [t \in Threads |-> FALSE]
  /\ l_state = [t \in Threads |-> ""]
  /\ saved = [t \in Threads |-> <<>>]

\* create_app with a store that is reachable or not, the loop start() makes,
\* and the routes served once the app is returned
NextApp ==
  \/ CreateAppConnect
  \/ StartCheck(1) \/ StartSet(1) \/ StartThread(1)
  \/ CreateAppReturn
  \/ \E t \in Threads : LoopStep(t)
  \/ ApiNoEngine
  \/ ApiLatest

SpecApp == InitApp /\ [][NextApp]_vars

\* ------------------------------------------------------- claims
\* C3: every generated heart rate lies in [60,180], every oxygen saturation in
\* [95.0,100.0] and every body temperature in [36.1,37.5] (tenths), in every
\* activity state and for every draw: the clamp and the rounding keep the range.
C3_SignalsInRange ==
  \A t \in Threads :
    /\ reading[t].hr # 0 => (HR_MIN <= reading[t].hr /\ reading[t].hr <= HR_MAX)
    /\ reading[t].spo2 # 0 => (OXY_MIN <= reading[t].spo2 /\ reading[t].spo2 <= OXY_MAX)
    /\ reading[t].temp # 0 => (TEMP_MIN <= reading[t].temp /\ reading[t].temp <= TEMP_MAX)

\* C3 witness: the clamp acted (resting, target 60 and noise -5)
C3_Witness_ClampedLow == activity_state = "resting" /\ reading[1].hr = HR_MIN

\* the loops inside a tick: between the test of the flag and the sleep
Ticking == {t \in Threads : lpc[t] \in {"change", "hr", "steps", "steps_store",
                                         "steps_ret", "oxy"}}

\* C1: while no stop() was called and no two lifecycle calls overlapped, there
\* is at most one loop, and once a thread was made the engine is Running with
\* exactly that loop; and a start() that finds the engine Running returns
\* having changed no field of the engine and made no thread.
C1_OneLoopWhilePlain ==
  plain => /\ Cardinality(Live) <= 1
           /\ thread # 0 => (is_running /\ Live = {thread})

C1_StartNoOpStep ==
  \A c \in Callers :
    (cpc[c] = "start_check" /\ is_running /\ cpc'[c] # cpc[c])
      => (cpc'[c] = "idle" /\ UNCHANGED <<engine, lpc>>)

C1_StartTwiceOneLoop == []C1_OneLoopWhilePlain /\ [][C1_StartNoOpStep]_vars

\* C1 witness: a second start(), no stop() before it, is at its test of the
\* flag with the first start()'s loop alive
C1_Witness_SecondStart ==
  plain /\ cpc[1] = "start_check" /\ is_running /\ thread # 0 /\ Live = {thread}

\* C2: at most one loop is inside a tick at any time.
C2_AtMostOneTickLoop == Cardinality(Ticking) <= 1

\* C4: while no reset_steps() came since the step generation of the document
\* inserted last began, the next document inserted carries steps no smaller.
C4_StepsNeverDecrease ==
  [][(db_pasos # -1 /\ db_clean) => db_pasos' >= db_pasos]_vars

\* C5: the first step generation that begins after reset_steps() returned
\* (no other reset during it) returns that tick's own increment.
C5_ResetNeverLost ==
  [][\A t \in Threads :
       (lpc[t] = "steps_ret" /\ lpc'[t] = "oxy" /\ mark[t] = "first")
         => reading'[t].steps = l_inc[t]]_vars

\* C6: the step of reset_steps() sets total_steps to 0 and changes neither
\* is_running, activity_state, baseline_hr, the thread handle nor any loop.
C6_ResetFrame ==
  [][(rpc = "reset" /\ rpc' = "idle")
       => (total_steps' = 0 /\
           UNCHANGED <<is_running, activity_state, baseline_hr, thread, loopv>>)]_vars

\* C6 witness: reset_steps() acted on a Running engine in another state than
\* resting, and on a Stopped engine
C6_Witness_ResetWhileRunning ==
  resetPending /\ rpc = "idle" /\ total_steps = 0 /\ is_running
  /\ activity_state # "resting" /\ db_pasos > 0

\* C7: a stop() that finds the engine Stopped returns at once: it joins no
\* thread and changes no field of the engine.
C7_StopOnStoppedNoOp ==
  [][\A c \in Callers :
       (cpc[c] = "stop_check" /\ ~is_running /\ cpc'[c] # cpc[c])
         => (cpc'[c] = "idle" /\ UNCHANGED <<engine, lpc, jt>>)]_vars

\* C7 witness: a stop() at its test of the flag, after an earlier stop()
\* stopped the engine (a thread handle is there to join)
C7_Witness_SecondStop == cpc[1] = "stop_check" /\ ~is_running /\ thread # 0

\* no increment of the activity state fits under the bound on total_steps
Blocked(t) ==
  /\ lpc[t] = "steps"
  /\ \A inc \in Ends(StepRange(activity_state)) : total_steps + inc > MaxSteps

\* C8: whatever insert_one does, the loop goes from save_reading to its sleep
\* with the flag untouched; a loop ends only with the flag cleared, and only
\* stop() clears it; and every loop that has not ended begins a tick again
\* and again (as far as the bound on total_steps lets a tick go).
C8_SaveStep ==
  \A t \in Threads :
    (lpc[t] = "oxy" /\ lpc'[t] # "oxy") => (lpc'[t] = "sleep" /\ is_running' = is_running)

C8_OnlyStopEnds ==
  /\ \A t \in Threads : (lpc[t] # "done" /\ lpc'[t] = "done") => ~is_running
  /\ (is_running /\ ~is_running') => \E c \in Callers : cpc[c] = "stop_clear"

C8_SaveFailureNotFatal ==
  /\ [][C8_SaveStep /\ C8_OnlyStopEnds]_vars
  /\ \A t \in Threads :
       []<>(lpc[t] = "change" \/ lpc[t] \in {"unborn", "done"} \/ Blocked(t))

\* C8 witness: nothing was ever inserted although a tick generated steps, and
\* the one loop there ever was is in a later tick
C8_Witness_TickAfterFailedSave ==
  \E t \in Threads :
    /\ lpc[t] = "change" /\ is_running /\ db_pasos = -1 /\ total_steps > 0
    /\ \A u \in Threads \ {t} : lpc[u] = "unborn"

\* C9: when stop() returns the engine is Stopped, and a loop that was alive
\* when stop() cleared the flag ends at its next test of the flag.
C9_StopEndsLoop ==
  [][/\ \A c \in Callers :
          (cpc[c] \in {"stop_thread", "stop_join"} /\ cpc'[c] = "idle") => ~is_running'
     /\ \A t \in Threads :
          (lpc[t] = "check" /\ stopReq[t] /\ lpc'[t] # "check") => lpc'[t] = "done"]_vars

\* C10: the dict get_status returns equals the engine's (is_running,
\* activity_state, total_steps) at some instant of the call.
C10_StatusIsSnapshot == spc = "ret" => hist # {}

\* C11: the zone endpoint answers a heart rate hr below 60 with reposo and
\* #6b7280, 60 <= hr < 100 with ligera and #10b981, 100 <= hr < 140 with
\* moderada and #f59e0b, 140 <= hr < 170 with intensa, 170 <= hr < 220 with
\* maxima and #dc2626; and every hr in [0,220) lies in exactly one zone of the table.
C11_ZoneTable ==
  /\ (resp.route = "zone" /\ resp.code = 200) =>
       LET hr == resp.hr
       IN  /\ hr < 60 => (resp.zone = "reposo" /\ resp.color = "#6b7280")
           /\ (60 <= hr /\ hr < 100) => (resp.zone = "ligera" /\ resp.color = "#10b981")
           /\ (100 <= hr /\ hr < 140) => (resp.zone = "moderada" /\ resp.color = "#f59e0b")
           /\ (140 <= hr /\ hr < 170) => resp.zone = "intensa"
           /\ (170 <= hr /\ hr < 220) => (resp.zone = "maxima" /\ resp.color = "#dc2626")
  /\ \A d \in db_docs :
       (0 <= d.hr /\ d.hr < 220) => Cardinality(ZoneMatches(HEART_RATE_ZONES, d.hr)) = 1

\* C11 witness: the lookup answered a heart rate on a zone's lower edge
C11_Witness_Edge170 ==
  resp.route = "zone" /\ resp.code = 200 /\ resp.hr = 170 /\ resp.zone = "maxima"

\* C13: /api/biometrics/latest answers 404 when the collection it queries is
\* empty, and 200 with a document of the greatest timestamp when it is not.
C13_LatestOr404 ==
  [][(resp' # resp /\ resp'.route = "latest" /\ app_db = "db") =>
       IF db_docs = {} THEN resp'.code = 404
       ELSE /\ resp'.code = 200
            /\ \E d \in db_docs : d.ts = resp'.ts /\ d.hr = resp'.hr
            /\ \A d \in db_docs : d.ts <= resp'.ts]_vars

\* C13 witness: the answer is the reading of the greatest timestamp, with an
\* earlier reading of another heart rate in the collection
C13_Witness_LatestOfTwo ==
  /\ resp.route = "latest" /\ resp.code = 200 /\ resp.ts = MaxTs
  /\ \E d \in db_docs : d.ts < resp.ts /\ d.hr # resp.hr

\* C20: for every heart rate in [0,220) the zone the API's lookup answers is
\* the zone get_heart_rate_zone returns.
C20_ClassifiersAgree ==
  (resp.route = "zone" /\ resp.code = 200 /\ 0 <= resp.hr /\ resp.hr < 220)
    => resp.zone = GetHeartRateZone(resp.hr)

\* C20 witness: both classify 100 bpm, an edge of the table, as moderada
C20_Witness_Edge100 ==
  /\ resp.route = "zone" /\ resp.code = 200 /\ resp.hr = 100
  /\ resp.zone = "moderada" /\ GetHeartRateZone(resp.hr) = "moderada"

\* C12: when the store was unreachable at startup (app.db is None) there is no
\* engine and no loop, nothing is generated or inserted, and the application
\* does not come up serving its routes.
C12_StoreUnavailableNoApp ==
  app_db = "None" =>
    /\ app_simulator = "None" /\ ~is_running /\ thread = 0
    /\ \A t \in Threads : lpc[t] = "unborn" /\ reading[t] = NoReading
    /\ db_pasos = -1
    /\ ~app_up

\* the increment range the specification gives each activity state
C14_IncrementRange(s) ==
  CASE s = "resting"  -> 0..2
    [] s = "light"    -> 3..8
    [] s = "moderate" -> 10..20
    [] s = "intense"  -> 25..40

\* the heart rates of a state: its target range widened by 5, clamped to [60,180]
C14_HeartRates(s) ==
  {Max2(60, Min2(x, 180)) : x \in (HrTarget(s)[1] - 5)..(HrTarget(s)[2] + 5)}

\* C14: the heart rate and the step increment a tick generates lie in the
\* ranges of the activity state that tick's own transition left.
C14_GeneratorsUseTickState ==
  [][\A t \in Threads :
       /\ (lpc[t] = "hr" /\ lpc'[t] = "steps")
            => reading'[t].hr \in C14_HeartRates(l_state[t])
       /\ (lpc[t] = "steps" /\ lpc'[t] = "steps_store")
            => l_inc'[t] \in C14_IncrementRange(l_state[t])]_vars

\* C15: a tick calls insert_one exactly once, for the reading it generated:
\* no call before the tick's save, one when the tick sleeps; a call that
\* succeeds inserts that tick's reading and a call that fails inserts nothing;
\* the reading is dropped either way, and no other step inserts.
C15_SavesPerTick ==
  \A t \in Threads :
    /\ Len(saved[t]) <= 1
    /\ lpc[t] = "sleep" => Len(saved[t]) = 1
    /\ lpc[t] \in {"change", "hr", "steps", "steps_store", "steps_ret", "oxy"}
         => saved[t] = <<>>

C15_SaveStep ==
  /\ \A t \in Threads :
       (lpc[t] = "oxy" /\ saved'[t] # saved[t]) =>
         /\ db_pasos' = IF saved'[t][Len(saved'[t])] THEN reading[t].steps ELSE db_pasos
         /\ reading'[t] = NoReading
         /\ lpc'[t] = "sleep"
  /\ (db_pasos' # db_pasos) => \E t \in Threads : lpc[t] = "oxy" /\ saved'[t] # saved[t]

C15_OneSavePerTick == []C15_SavesPerTick /\ [][C15_SaveStep]_vars

\* C15 witness: a tick's save failed after an earlier tick's save succeeded,
\* and the reading that failed (it had more steps) is not in the collection
C15_Witness_FailedNotStored ==
  \E t \in Threads :
    /\ lpc[t] = "sleep" /\ saved[t] = <<FALSE>>
    /\ db_pasos >= 0 /\ total_steps > db_pasos
    /\ \A u \in Threads \ {t} : lpc[u] = "unborn"

\* C16: the activity state is resting until a loop has run, is always one of
\* resting, light, moderate, intense, and changes only in the transition step
\* of a tick: no step of start(), stop(), reset_steps() or get_status() changes it.
C16_ActivityValid ==
  /\ activity_state \in {"resting", "light", "moderate", "intense"}
  /\ (\A t \in Threads : lpc[t] = "unborn") => activity_state = "resting"

C16_OnlyTransitionStep ==
  /\ activity_state' # activity_state
       => \E t \in Threads : lpc[t] = "change" /\ lpc'[t] = "hr"
  /\ (cpc' # cpc \/ rpc' # rpc \/ spc' # spc) => activity_state' = activity_state

C16_ActivityOnlyByTransition == []C16_ActivityValid /\ [][C16_OnlyTransitionStep]_vars

\* C16 witness: the engine was started, left resting, was stopped, its steps
\* were reset, and a get_status call read the activity state, which is still
\* the one the loop left
C16_Witness_OpsLeaveActivity ==
  /\ activity_state = "light" /\ ~is_running /\ thread # 0 /\ cpc[1] = "idle"
  /\ \E t \in Threads : stopReq[t] /\ lpc[t] = "done"
  /\ resetPending /\ spc = "ret" /\ status.activity_state = "light"

\* C17: a loop that is in its sleep with the flag cleared by stop() leaves the
\* sleep only by ending: it does not sit out the interval and come back to
\* the test of the flag when time.sleep returns.
C17_SleepInterrupted ==
  [][\A t \in Threads :
       (lpc[t] = "sleep" /\ stopReq[t] /\ ~is_running) => lpc'[t] \in {"sleep", "done"}]_vars

\* a stop() call that cleared the flag has returned and start() was not called since
Stopped == (\A c \in Callers : cpc[c] = "idle") /\ ~is_running /\ thread # 0

\* C18: from the return of a stop() that stopped the engine until the next
\* call of start(), no loop generates a value, calls insert_one or writes
\* total_steps, and nothing is inserted.
C18_QuietAfterStop ==
  [][Stopped =>
       /\ total_steps' = total_steps
       /\ db_pasos' = db_pasos
       /\ \A t \in Threads :
            /\ reading'[t] \in {reading[t], NoReading}
            /\ saved'[t] \in {saved[t], <<>>}
            /\ l_inc'[t] \in {l_inc[t], 0}]_vars

\* C19: no step of start() or stop() changes total_steps or activity_state,
\* and the loop start() makes begins with nothing generated.
C19_LifecycleKeepsTotals ==
  [][\A c \in Callers :
       cpc'[c] # cpc[c] =>
         /\ UNCHANGED <<total_steps, activity_state, baseline_hr>>
         /\ (cpc[c] = "start_thread" =>
               (thread' \in Threads /\ lpc'[thread'] = "check"
                /\ reading'[thread'] = NoReading /\ l_tmp'[thread'] = 0))]_vars

\* C19 witness: start() after a stop(): the flag is set again and the thread
\* is about to be made, the loop of the run before has ended and left a step
\* total and an activity state that are not the initial ones
C19_Witness_Restarted ==
  /\ cpc[1] = "start_thread" /\ is_running
  /\ thread # 0 /\ lpc[thread] = "done"
  /\ total_steps > 0 /\ activity_state # "resting"

====
